---- MODULE Spec2Model ----
(***************************************************************************)
(* Model of the XBee binary codec: the InnerData contract (stream.rs), the *)
(* derived record codec (xbee-derive), the address-query responses         *)
(* (zdo.rs) and the API frame envelope (frames.rs).                        *)
(*                                                                         *)
(* Representation of values:                                               *)
(*   - an integer of width 1 or 2 bytes is a natural number;                *)
(*   - a wider integer (u32, u64, ...) is the tuple of its 16-bit limbs,   *)
(*     most significant first (TLC integers are 32 bits wide);             *)
(*   - bool is a BOOLEAN; [T; N], SizeVec, HungryVec and String are        *)
(*     sequences; a derived record is the tuple of its fields in           *)
(*     declaration order; an address-query response is <<shape, fields>>.  *)
(*   - a usize is an integer; a negative integer -k stands for the wrapped *)
(*     value 2^BITS - k that an unchecked subtraction produces.            *)
(***************************************************************************)
EXTENDS Integers, Sequences, FiniteSets, TLC

VARIABLES
    ty,               \* name of the codec type under test
    val,              \* the value handed to write
    endian,           \* ambient byte order of the stream
    overflow_checks,  \* build profile: TRUE = arithmetic overflow panics
    hungry_len,       \* byte width of the length type `U` in HungryVec::write
    usize_bytes,      \* usize::BITS / 8 of the build target
    wire,             \* bytes on the stream between write and read
    budget,           \* max_size handed to read
    out,              \* result of read
    pc,               \* position of the codec run
    sink,             \* bytes Frame::write has handed to write_f
    checksum,         \* the running checksum of Frame::write
    pending,          \* payload bytes not yet passed through cs_stream
    fpc,              \* position inside Frame::write
    vec,              \* contents of a heapless Vec<T, N>
    cap,              \* its capacity N
    push_res,         \* result of the last push
    threads,          \* the codec operations in progress on concurrent threads
    node,             \* the two bytes of a NodeDescriptorOpts
    node_set,         \* the argument each of its fields was last set with
    node_calls,       \* number of setter calls made on it after new
    npc               \* "none" until NodeDescriptorOpts::new has returned

vars == <<ty, val, endian, overflow_checks, hungry_len, usize_bytes, wire,
          budget, out, pc, sink, checksum, pending, fpc, vec, cap, push_res,
          threads, node, node_set, node_calls, npc>>

codecVars == <<ty, val, endian, overflow_checks, hungry_len, wire, budget, out, pc>>
frameVars == <<sink, checksum, pending, fpc, usize_bytes>>
vecVars == <<vec, cap, push_res>>
threadVars == <<threads>>
nodeVars == <<node, node_set, node_calls, npc>>

----------------------------------------------------------------------------
(* Bounds of the model *)

\* largest number of elements in a generated container value
MaxElems == 2
\* how far above the largest sensible budget the decode budget ranges
MaxExtra == 2
\* capacities of the Vec<T, N> driven by the push actions are 0..MaxCap
MaxCap == 4

----------------------------------------------------------------------------
(* Sequences and unsigned arithmetic *)

\* sum and concatenation of the elements, by halves: long sequences stay
\* within a shallow recursion
RECURSIVE SumSeq(_)
SumSeq(s) ==
    IF s = <<>> THEN 0
    ELSE IF Len(s) = 1 THEN s[1]
    ELSE SumSeq(SubSeq(s, 1, Len(s) \div 2))
            + SumSeq(SubSeq(s, (Len(s) \div 2) + 1, Len(s)))

RECURSIVE Flatten(_)
Flatten(ss) ==
    IF ss = <<>> THEN <<>>
    ELSE IF Len(ss) = 1 THEN ss[1]
    ELSE Flatten(SubSeq(ss, 1, Len(ss) \div 2))
            \o Flatten(SubSeq(ss, (Len(ss) \div 2) + 1, Len(ss)))

Take(s, k) == SubSeq(s, 1, k)
Drop(s, k) == SubSeq(s, k + 1, Len(s))

Min(a, b) == IF a <= b THEN a ELSE b

\* usize comparison; a negative model integer is a wrapped (huge) usize
ULt(a, b) == IF (a < 0) = (b < 0) THEN a < b ELSE b < 0
ULe(a, b) == a = b \/ ULt(a, b)
UMin(a, b) == IF ULe(a, b) THEN a ELSE b
\* a + b leaves the usize range exactly when a wrapped value passes zero
AddOverflows(a, b) == a < 0 /\ b >= 0 /\ a + b >= 0

None == -1000000

LE == "LittleEndian"
BE == "BigEndian"

----------------------------------------------------------------------------
(* Primitive integers: impl_writable! *)

to_be_bytes(v, w) ==
    IF w = 1 THEN <<v>>
    ELSE IF w = 2 THEN <<v \div 256, v % 256>>
    ELSE Flatten([i \in 1..(w \div 2) |-> <<v[i] \div 256, v[i] % 256>>])

\* mutant: the most significant byte is written first
to_le_bytes_msb_first(v, w) ==
    IF w = 1 THEN <<v>>
    ELSE IF w = 2 THEN <<v \div 256, v % 256>>
    ELSE Flatten([i \in 1..(w \div 2) |-> <<v[i] \div 256, v[i] % 256>>])

to_le_bytes(v, w) ==
    IF w = 1 THEN <<v>>
    ELSE IF w = 2 THEN <<v % 256, v \div 256>>
    ELSE Flatten([i \in 1..(w \div 2) |->
                    <<v[(w \div 2) + 1 - i] % 256, v[(w \div 2) + 1 - i] \div 256>>])

\* mutant: the bytes are taken least significant first
from_be_bytes_swapped(b, w) ==
    IF w = 1 THEN b[1]
    ELSE IF w = 2 THEN b[2] * 256 + b[1]
    ELSE [i \in 1..(w \div 2) |-> b[w + 2 - 2 * i] * 256 + b[w + 1 - 2 * i]]

from_be_bytes(b, w) ==
    IF w = 1 THEN b[1]
    ELSE IF w = 2 THEN b[1] * 256 + b[2]
    ELSE [i \in 1..(w \div 2) |-> b[2 * i - 1] * 256 + b[2 * i]]

from_le_bytes(b, w) ==
    IF w = 1 THEN b[1]
    ELSE IF w = 2 THEN b[2] * 256 + b[1]
    ELSE [i \in 1..(w \div 2) |-> b[w + 2 - 2 * i] * 256 + b[w + 1 - 2 * i]]

\* `len as $int` in num_len!'s From<usize>
FromUsize(len, w) ==
    IF w = 1 THEN len % 256
    ELSE IF w = 2 THEN len % 65536
    ELSE [i \in 1..(w \div 2) |->
            IF i = w \div 2 THEN len % 65536
            ELSE IF i = (w \div 2) - 1 THEN len \div 65536
            ELSE 0]

\* `self.0 as usize` in num_len!'s Into<usize>
IntoUsize(v, w) ==
    IF w <= 2 THEN v ELSE v[(w \div 2) - 1] * 65536 + v[w \div 2]

----------------------------------------------------------------------------
(* The codec types of the repository, by name *)

IntT(w) == [k |-> "int", w |-> w]
RecordT(fs) == [k |-> "record", fields |-> fs]
EnumT(w, vs) == [k |-> "enum", w |-> w, vals |-> vs]
ArrayT(t, n) == [k |-> "array", t |-> t, n |-> n]
SizeVecT(u, t, n) == [k |-> "sizevec", u |-> u, t |-> t, n |-> n]
HungryVecT(t, n) == [k |-> "hungry", t |-> t, n |-> n]
StringT(n) == [k |-> "string", n |-> n]

\* mutant: the read accepts the seven low bits only, as a validating
\* from_bits would for flag sets that name no bit 7
Bitflags_validated(t) == EnumT(1, 0..127)

\* the struct that bitflags! declares under #[derive(InnerData)]: its one
\* field `bits`, of the underlying integer type
Bitflags(t) == RecordT(<<t>>)

DeliveryStatusVals ==
    {\h00, \h01, \h02, \h15, \h21, \h22, \h23, \h24, \h25, \h26,
     \h2B, \h2C, \h2D, \h2E, \h32, \h34, \h35, \h74, \h75}
DiscoveryStatusVals == {\h00, \h01, \h02, \h03, \h40}
PhysicalEnvironmentVals == (\h00..\h59) \cup (\h60..\h71) \cup {\hFF}

LocalAtCommandRequest(t) == RecordT(<<"u8", "[u8; 2]", t>>)

TransmitRequest(t) ==
    RecordT(<<"u8", "IeeeAddress", "NetworkAddress", "u8", "TransmitOpts", t>>)

ExtendedTransmitStatus ==
    RecordT(<<"u8", "NetworkAddress", "u8", "DeliveryStatus", "DiscoveryStatus">>)

ExplicitRxIndicator ==
    RecordT(<<"IeeeAddress", "NetworkAddress", "Endpoint", "Endpoint",
             "ClusterId", "ProfileId", "ReceiveOpts", "ClusterData">>)

ManyToOneRouteRequestIndicator ==
    RecordT(<<"IeeeAddress", "NetworkAddress", "ReceiveOptsEmpty">>)

NetworkAddressRequest == RecordT(<<"IeeeAddress", "bool", "u8">>)

NetworkAddressResponseSingle ==
    RecordT(<<"StatusCode", "IeeeAddress", "NetworkAddress">>)

MatchDescriptorRequest ==
    RecordT(<<"NetworkAddress", "ProfileId",
             "SizeVec<U8Len, ClusterId, 255>", "SizeVec<U8Len, ClusterId, 255>">>)

BasicCluster ==
    RecordT(<<"u8", "u8", "u8", "u8", "String<32>", "String<32>", "String<16>",
             "u8", "u8", "u8", "String<64>", "String<64>", "String<64>",
             "String<64>", "String<64>", "String<16>", "PhysicalEnvironment",
             "bool", "AlarmMask", "DisableLocalConfig", "String<16>">>)

Ty(n) ==
    CASE n = "u8" -> IntT(1)
      [] n = "u16" -> IntT(2)
      [] n = "u32" -> IntT(4)
      [] n = "u64" -> IntT(8)
      [] n = "bool" -> [k |-> "bool"]
      [] n = "U8Len" -> RecordT(<<"u8">>)
      [] n = "U16Len" -> RecordT(<<"u16">>)
      [] n = "U32Len" -> RecordT(<<"u32">>)
      [] n = "U64Len" -> RecordT(<<"u64">>)
      [] n = "IeeeAddress" -> RecordT(<<"u64">>)
      [] n = "NetworkAddress" -> RecordT(<<"u16">>)
      [] n = "Endpoint" -> RecordT(<<"u8">>)
      [] n = "ClusterId" -> RecordT(<<"u16">>)
      [] n = "ProfileId" -> RecordT(<<"u16">>)
      [] n = "StatusCode" -> RecordT(<<"u8">>)
      [] n = "TransmitOpts" -> Bitflags("u8")
      [] n = "ReceiveOpts" -> Bitflags("u8")
      [] n = "ReceiveOptsEmpty" -> Bitflags("u8")
      [] n = "AlarmMask" -> Bitflags("u8")
      [] n = "DisableLocalConfig" -> Bitflags("u8")
      [] n = "DeliveryStatus" -> EnumT(1, DeliveryStatusVals)
      [] n = "DiscoveryStatus" -> EnumT(1, DiscoveryStatusVals)
      [] n = "PhysicalEnvironment" -> EnumT(1, PhysicalEnvironmentVals)
      [] n = "[u8; 2]" -> ArrayT("u8", 2)
      [] n = "[u16; 2]" -> ArrayT("u16", 2)
      [] n = "[String<2>; 2]" -> ArrayT("String<2>", 2)
      [] n = "SizeVec<U8Len, u8, 2>" -> SizeVecT("U8Len", "u8", 2)
      [] n = "SizeVec<U16Len, u16, 2>" -> SizeVecT("U16Len", "u16", 2)
      [] n = "SizeVec<U32Len, u8, 2>" -> SizeVecT("U32Len", "u8", 2)
      [] n = "SizeVec<U8Len, u8, 300>" -> SizeVecT("U8Len", "u8", 300)
      [] n = "SizeVec<U16Len, u8, 300>" -> SizeVecT("U16Len", "u8", 300)
      [] n = "SizeVec<U32Len, u8, 300>" -> SizeVecT("U32Len", "u8", 300)
      [] n = "SizeVec<U64Len, u8, 300>" -> SizeVecT("U64Len", "u8", 300)
      [] n = "SizeVec<U8Len, String<2>, 2>" -> SizeVecT("U8Len", "String<2>", 2)
      [] n = "SizeVec<U8Len, ClusterId, 255>" -> SizeVecT("U8Len", "ClusterId", 255)
      [] n = "SizeVec<U8Len, Endpoint, 255>" -> SizeVecT("U8Len", "Endpoint", 255)
      [] n = "HungryVec<u8, 2>" -> HungryVecT("u8", 2)
      [] n = "HungryVec<u16, 2>" -> HungryVecT("u16", 2)
      [] n = "String<2>" -> StringT(2)
      [] n = "String<16>" -> StringT(16)
      [] n = "String<300>" -> StringT(300)
      [] n = "String<32>" -> StringT(32)
      [] n = "String<64>" -> StringT(64)
      [] n = "OverwriteLittleEndian<u16>" -> [k |-> "le", t |-> "u16"]
      [] n = "OverwriteBigEndian<u16>" -> [k |-> "be", t |-> "u16"]
      [] n = "ClusterData" -> [k |-> "cluster_data"]
      [] n = "LocalAtCommandRequest<u8>" -> LocalAtCommandRequest("u8")
      [] n = "TransmitRequest<SizeVec<U8Len, u8, 2>>" ->
            TransmitRequest("SizeVec<U8Len, u8, 2>")
      [] n = "TransmitRequest<OverwriteLittleEndian<u16>>" ->
            TransmitRequest("OverwriteLittleEndian<u16>")
      [] n = "TransmitRequest<OverwriteBigEndian<u16>>" ->
            TransmitRequest("OverwriteBigEndian<u16>")
      [] n = "[TransmitRequest<OverwriteLittleEndian<u16>>; 2]" ->
            ArrayT("TransmitRequest<OverwriteLittleEndian<u16>>", 2)
      [] n = "[TransmitRequest<OverwriteBigEndian<u16>>; 2]" ->
            ArrayT("TransmitRequest<OverwriteBigEndian<u16>>", 2)
      [] n = "ExtendedTransmitStatus" -> ExtendedTransmitStatus
      [] n = "ExplicitRxIndicator" -> ExplicitRxIndicator
      [] n = "ManyToOneRouteRequestIndicator" -> ManyToOneRouteRequestIndicator
      [] n = "NetworkAddressRequest" -> NetworkAddressRequest
      [] n = "MatchDescriptorRequest" -> MatchDescriptorRequest
      [] n = "BasicCluster" -> BasicCluster
      [] n = "NetworkAddressResponseSingle" -> NetworkAddressResponseSingle
      [] n = "IeeeAddressResponseSingle" -> NetworkAddressResponseSingle
      [] n = "NetworkAddressResponseExtended" -> [k |-> "addr_ext"]
      [] n = "IeeeAddressResponseExtended" -> [k |-> "addr_ext"]
      [] n = "NetworkAddressResponse" ->
            [k |-> "addr_resp", single |-> "NetworkAddressResponseSingle",
             extended |-> "NetworkAddressResponseExtended"]
      [] n = "IeeeAddressResponse" ->
            [k |-> "addr_resp", single |-> "IeeeAddressResponseSingle",
             extended |-> "IeeeAddressResponseExtended"]

\* FrameData::API_TYPE
API_TYPE(n) ==
    CASE n = "LocalAtCommandRequest<u8>" -> \h08
      [] n = "TransmitRequest<SizeVec<U8Len, u8, 2>>" -> \h10
      [] n = "ExtendedTransmitStatus" -> \h8B
      [] n = "ExplicitRxIndicator" -> \h91
      [] n = "ManyToOneRouteRequestIndicator" -> \hA3

----------------------------------------------------------------------------
(* InnerData::MIN_SIZE and InnerData::MAX_SIZE *)

\* MIN_SIZE of the extended address-query response (zdo.rs): 1 + 8 + 2 + 1 + 1
AddrExtMinSize == 13

RECURSIVE MIN_SIZE(_)
MIN_SIZE(n) ==
    LET d == Ty(n) IN
    CASE d.k = "int" -> d.w
      [] d.k = "bool" -> 1
      [] d.k = "enum" -> d.w
      [] d.k = "array" -> d.n * MIN_SIZE(d.t)
      [] d.k = "sizevec" -> MIN_SIZE(d.u)
      [] d.k = "hungry" -> 0
      [] d.k = "string" -> 1
      [] d.k = "le" -> MIN_SIZE(d.t)
      [] d.k = "be" -> MIN_SIZE(d.t)
      [] d.k = "cluster_data" -> 0
      [] d.k = "record" -> SumSeq([i \in 1..Len(d.fields) |-> MIN_SIZE(d.fields[i])])
      [] d.k = "addr_ext" ->
            MIN_SIZE("StatusCode") + MIN_SIZE("IeeeAddress")
                + MIN_SIZE("NetworkAddress") + MIN_SIZE("u8") + MIN_SIZE("u8")
      [] d.k = "addr_resp" -> MIN_SIZE(d.single)

\* mutant: a field without a maximum adds nothing to the sum
RecordMaxSize_skipping(maxes) ==
    SumSeq([i \in 1..Len(maxes) |-> IF maxes[i] = None THEN 0 ELSE maxes[i]])

\* the derived MAX_SIZE: `loop { break Some(0 + match .. { Some(m) => m,
\* None => break None } ..) }` over the fields' MAX_SIZE
RecordMaxSize(maxes) ==
    IF \E i \in 1..Len(maxes) : maxes[i] = None THEN None ELSE SumSeq(maxes)

RECURSIVE MAX_SIZE(_)
MAX_SIZE(n) ==
    LET d == Ty(n) IN
    CASE d.k = "int" -> MIN_SIZE(n)
      [] d.k = "bool" -> 1
      [] d.k = "enum" -> d.w
      [] d.k = "array" ->
            IF MAX_SIZE(d.t) = None THEN None ELSE MAX_SIZE(d.t) * d.n
      [] d.k = "sizevec" ->
            IF MAX_SIZE(d.t) # None /\ MAX_SIZE(d.u) # None /\ d.n < 64
            THEN MAX_SIZE(d.u) + d.n * MAX_SIZE(d.t)
            ELSE None
      [] d.k = "hungry" -> d.n
      [] d.k = "string" -> 1 + d.n
      [] d.k = "le" -> MAX_SIZE(d.t)
      [] d.k = "be" -> MAX_SIZE(d.t)
      [] d.k = "cluster_data" -> None
      [] d.k = "record" ->
            RecordMaxSize([i \in 1..Len(d.fields) |-> MAX_SIZE(d.fields[i])])
      [] d.k = "addr_ext" -> None
      [] d.k = "addr_resp" -> None

----------------------------------------------------------------------------
(* InnerData::byte_size *)

RECURSIVE byte_size(_, _)
byte_size(n, v) ==
    LET d == Ty(n) IN
    CASE d.k = "int" -> MIN_SIZE(n)
      [] d.k = "bool" -> 1
      [] d.k = "enum" -> MIN_SIZE(n)
      [] d.k = "array" -> SumSeq([i \in 1..Len(v) |-> byte_size(d.t, v[i])])
      [] d.k = "sizevec" ->
            byte_size(d.u, <<FromUsize(Len(v), MIN_SIZE(d.u))>>)
                + SumSeq([i \in 1..Len(v) |-> byte_size(d.t, v[i])])
      [] d.k = "hungry" -> SumSeq([i \in 1..Len(v) |-> byte_size(d.t, v[i])])
      [] d.k = "string" -> 1 + Len(v)
      [] d.k = "le" -> byte_size(d.t, v)
      [] d.k = "be" -> byte_size(d.t, v)
      [] d.k = "cluster_data" -> Len(v)
      [] d.k = "record" ->
            SumSeq([i \in 1..Len(d.fields) |-> byte_size(d.fields[i], v[i])])
      [] d.k = "addr_ext" ->
            byte_size("StatusCode", v[1]) + byte_size("IeeeAddress", v[2])
                + byte_size("NetworkAddress", v[3]) + byte_size("u8", v[4])
                + byte_size("u8", v[5]) + Len(v[6]) * MIN_SIZE("NetworkAddress")
      [] d.k = "addr_resp" ->
            IF v[1] = "Single" THEN byte_size(d.single, v[2])
            ELSE byte_size(d.extended, v[2])

----------------------------------------------------------------------------
(* InnerData::write; cx.e is the stream's endianness, cx.hl the width of   *)
(* the length type named `U` in HungryVec::write                           *)

Reverse(s) == [i \in 1..Len(s) |-> s[Len(s) + 1 - i]]

\* mutant: the fields are written last to first
WriteFields_reversed(parts) == Flatten(Reverse(parts))

\* the derived write: one InnerData::write per field, in declaration order
WriteFields(parts) == Flatten(parts)

\* mutant: the wrapper reports the order of the stream it wraps
OverwriteLittleEndian_inner(cx) == cx

\* the stream OverwriteLittleEndian(stream): same sink, endianness() is
\* LittleEndian
OverwriteLittleEndian(cx) == [cx EXCEPT !.e = LE]

\* the stream OverwriteBigEndian(stream): same sink, endianness() is BigEndian
OverwriteBigEndian(cx) == [cx EXCEPT !.e = BE]

RECURSIVE write(_, _, _)
write(n, v, cx) ==
    LET d == Ty(n) IN
    CASE d.k = "int" ->
            IF cx.e = LE THEN to_le_bytes(v, d.w) ELSE to_be_bytes(v, d.w)
      [] d.k = "bool" -> <<IF v THEN 1 ELSE 0>>
      [] d.k = "enum" -> write(IF d.w = 1 THEN "u8" ELSE "u16", v, cx)
      [] d.k = "array" -> Flatten([i \in 1..Len(v) |-> write(d.t, v[i], cx)])
      [] d.k = "sizevec" ->
            write(d.u, <<FromUsize(Len(v), MIN_SIZE(d.u))>>, cx)
                \o Flatten([i \in 1..Len(v) |-> write(d.t, v[i], cx)])
      [] d.k = "hungry" ->
            write(CASE cx.hl = 1 -> "U8Len" [] cx.hl = 2 -> "U16Len"
                    [] cx.hl = 4 -> "U32Len" [] cx.hl = 8 -> "U64Len",
                  <<FromUsize(Len(v), cx.hl)>>, cx)
                \o Flatten([i \in 1..Len(v) |-> write(d.t, v[i], cx)])
      [] d.k = "string" -> write("u8", Len(v) % 256, cx) \o v
      [] d.k = "le" -> write(d.t, v, OverwriteLittleEndian(cx))
      [] d.k = "be" -> write(d.t, v, OverwriteBigEndian(cx))
      [] d.k = "cluster_data" -> v
      [] d.k = "record" ->
            WriteFields([i \in 1..Len(d.fields) |-> write(d.fields[i], v[i], cx)])
      [] d.k = "addr_ext" ->
            write("StatusCode", v[1], cx) \o write("IeeeAddress", v[2], cx)
                \o write("NetworkAddress", v[3], cx) \o write("u8", v[4], cx)
                \o write("u8", v[5], cx)
                \o Flatten([i \in 1..Len(v[6]) |-> write("NetworkAddress", v[6][i], cx)])
      [] d.k = "addr_resp" ->
            IF v[1] = "Single" THEN write(d.single, v[2], cx)
            ELSE write(d.extended, v[2], cx)

----------------------------------------------------------------------------
(* InnerData::read.  A read returns                                        *)
(*   st      "ok" or "panic"                                               *)
(*   why     the kind of the panic, site the code place that raised it,    *)
(*           at the record type whose own budget check raised it           *)
(*   val     the decoded value                                             *)
(*   rest    the part of the stream not yet read                           *)
(*   budgets for a record, array or SizeVec: the max_size handed to each   *)
(*           field or element read so far                                  *)

Ok(v, rest, budgets) ==
    [st |-> "ok", why |-> "", site |-> "", at |-> "", val |-> v, rest |-> rest,
     budgets |-> budgets]

PanicAt(why, site, at, rest, budgets) ==
    [st |-> "panic", why |-> why, site |-> site, at |-> at, val |-> <<>>,
     rest |-> rest, budgets |-> budgets]

Panic(why, site, rest, budgets) == PanicAt(why, site, "", rest, budgets)

NoResult == Panic("", "not run", <<>>, <<>>)

\* core::str::from_utf8(bytes).is_ok()
RECURSIVE IsUtf8(_)
IsUtf8(b) ==
    IF b = <<>> THEN TRUE
    ELSE LET h == b[1]
             Cont(i) == i <= Len(b) /\ b[i] \in 128..191
         IN  IF h < 128 THEN IsUtf8(Tail(b))
             ELSE IF h \in 194..223 THEN Cont(2) /\ IsUtf8(Drop(b, 2))
             ELSE IF h = 224
                  THEN Len(b) >= 2 /\ b[2] \in 160..191 /\ Cont(3) /\ IsUtf8(Drop(b, 3))
             ELSE IF h \in (225..236) \cup (238..239)
                  THEN Cont(2) /\ Cont(3) /\ IsUtf8(Drop(b, 3))
             ELSE IF h = 237
                  THEN Len(b) >= 2 /\ b[2] \in 128..159 /\ Cont(3) /\ IsUtf8(Drop(b, 3))
             ELSE IF h = 240
                  THEN Len(b) >= 2 /\ b[2] \in 144..191 /\ Cont(3) /\ Cont(4)
                       /\ IsUtf8(Drop(b, 4))
             ELSE IF h \in 241..243
                  THEN Cont(2) /\ Cont(3) /\ Cont(4) /\ IsUtf8(Drop(b, 4))
             ELSE IF h = 244
                  THEN Len(b) >= 2 /\ b[2] \in 128..143 /\ Cont(3) /\ Cont(4)
                       /\ IsUtf8(Drop(b, 4))
             ELSE FALSE

\* ClusterData (frames.rs:86,172) is declared nowhere in the repository; its
\* decode takes the whole budget as bytes, as the greedy tail of the frame
ClusterData_read(s, max_size) ==
    IF max_size < 0 \/ Len(s) < max_size
    THEN Panic("StreamUnderrun", "cluster_data", s, <<>>)
    ELSE Ok(Take(s, max_size), Drop(s, max_size), <<>>)

\* mutant: the caller's budget is not clamped to MAX_SIZE
CapBudget_unclamped(max, max_size) == max_size

\* the budget a record or array read starts from:
\* Self::MAX_SIZE.map_or(max_size, |c_max_size| c_max_size.min(max_size))
CapBudget(max, max_size) == IF max = None THEN max_size ELSE UMin(max, max_size)

\* mutant: a zero difference is rejected too
checked_sub_strict(a, b) == IF ULe(a, b) THEN None ELSE a - b

\* usize::checked_sub; None when the difference is not a usize
checked_sub(a, b) == IF ULt(a, b) THEN None ELSE a - b

\* the assertion guarding <[T; N]>::read
ArrayBudgetOk(min, max_size) == ULt(min, max_size)

\* mutant: a length equal to max_size passes
StringLenFits_le(len, max_size) == ULe(len, max_size)

\* the assertion guarding <String<N>>::read
StringLenFits(len, max_size) == ULt(len, max_size)

\* mutant: a budget equal to the extended minimum still picks Single
ChooseShape_le(max_size, extended_min) ==
    IF ULe(max_size, extended_min) THEN "Single" ELSE "Extended"

\* the shape NetworkAddressResponse::read / IeeeAddressResponse::read picks
ChooseShape(max_size, extended_min) ==
    IF ULt(max_size, extended_min) THEN "Single" ELSE "Extended"

RECURSIVE read(_, _, _, _), ReadElems(_, _, _, _, _, _, _, _), ReadEach(_, _, _, _, _)
RECURSIVE ElemRead(_, _, _, _, _, _, _, _), EachRead(_, _, _, _, _)
RECURSIVE SizeVecElems(_, _, _, _), AddrList(_, _, _, _)

\* the rolling-slack loop shared by the derived record read, <[T; N]>::read
\* and SizeVec::read; limit is the capacity of the Vec that collect() fills
ReadElems(tys, i, s, field_size, acc, budgets, limit, cx) ==
    IF i > Len(tys) THEN Ok(acc, s, budgets)
    ELSE IF cx.oc /\ AddOverflows(field_size, MIN_SIZE(tys[i]))
    THEN Panic("ArithmeticOverflow", "field_size", s, budgets)
    ELSE ElemRead(tys, i, field_size + MIN_SIZE(tys[i]),
                  read(tys[i], s, field_size + MIN_SIZE(tys[i]), cx),
                  acc, budgets, limit, cx)

\* mutant: the slack is dropped after every field
SlackAfter_reset(fs1, size) == 0

\* field_size -= value.byte_size()
SlackAfter(fs1, size) == fs1 - size

ElemRead(tys, i, fs1, r, acc, budgets, limit, cx) ==
    IF r.st # "ok"
    THEN PanicAt(r.why, r.site, r.at, r.rest, Append(budgets, fs1))
    ELSE IF cx.oc /\ ULt(fs1, byte_size(tys[i], r.val))
    THEN Panic("ArithmeticOverflow", "field_size", r.rest, Append(budgets, fs1))
    ELSE IF limit # None /\ i > limit
    THEN Panic("CapacityExceeded", "collect", r.rest, Append(budgets, fs1))
    ELSE ReadElems(tys, i + 1, r.rest, SlackAfter(fs1, byte_size(tys[i], r.val)),
                   Append(acc, r.val), Append(budgets, fs1), limit, cx)

ReadEach(tys, i, s, acc, cx) ==
    IF i > Len(tys) THEN Ok(acc, s, <<>>)
    ELSE EachRead(tys, i, read(tys[i], s, MIN_SIZE(tys[i]), cx), acc, cx)

EachRead(tys, i, r, acc, cx) ==
    IF r.st # "ok" THEN r
    ELSE ReadEach(tys, i + 1, r.rest, Append(acc, r.val), cx)

\* mutant: an integer that names no variant is returned as it is
EnumOf_unchecked(vals, r) == r

\* the enum read after its discriminant is read: the match on the value
EnumOf(vals, r) ==
    IF r.st # "ok" THEN r
    ELSE IF r.val \notin vals
    THEN Panic("UnrecognizedDiscriminant", "enum", r.rest, <<>>)
    ELSE r

\* mutant: the elements are collected into a vector without a capacity
VecCapacity_unbounded(n) == None

\* the capacity N of the `vec: Vec<T, N>` that SizeVec::read collects into
VecCapacity(n) == n

\* SizeVec::read after the length prefix ru is read
SizeVecElems(d, ru, max_size, cx) ==
    IF ru.st # "ok" THEN ru
    ELSE IF cx.oc /\ ULt(max_size, byte_size(d.u, ru.val))
    THEN Panic("ArithmeticOverflow", "sizevec", ru.rest, <<>>)
    ELSE
      LET ms1 == max_size - byte_size(d.u, ru.val)
          len == IntoUsize(ru.val[1], MIN_SIZE(d.u))
          inner == IF MAX_SIZE(d.t) = None THEN ms1
                   ELSE UMin(len * MAX_SIZE(d.t), ms1)
      IN  IF cx.oc /\ ULt(inner, len * MIN_SIZE(d.t))
          THEN Panic("ArithmeticOverflow", "sizevec", ru.rest, <<>>)
          ELSE ReadElems([i \in 1..len |-> d.t], 1, ru.rest,
                         inner - len * MIN_SIZE(d.t), <<>>, <<>>,
                         VecCapacity(d.n), cx)

\* <String<N>>::read after the length byte rl is read
StringBody(n, rl, max_size) ==
    IF rl.st # "ok" THEN rl
    ELSE IF ~StringLenFits(rl.val, max_size)
    THEN Panic("BudgetUnderflow", "string", rl.rest, <<>>)
    ELSE IF rl.val > n
    THEN Panic("CapacityExceeded", "string", rl.rest, <<>>)
    ELSE IF Len(rl.rest) < rl.val
    THEN Panic("StreamUnderrun", "string", rl.rest, <<>>)
    ELSE IF ~IsUtf8(Take(rl.rest, rl.val))
    THEN Panic("InvalidEncoding", "string", Drop(rl.rest, rl.val), <<>>)
    ELSE Ok(Take(rl.rest, rl.val), Drop(rl.rest, rl.val), <<>>)

\* the address list of an extended response, after its five head fields rh
AddrTail(rh, ra) ==
    IF ra.st # "ok" THEN ra ELSE Ok(rh.val \o <<ra.val>>, ra.rest, <<>>)

\* mutant: one address more than announced is read
AddrRange_inclusive(num_addresses) == 1..(num_addresses + 1)

\* (0..num_addresses), one list element each
AddrRange(num_addresses) == 1..num_addresses

\* the second assert of the extended response: head and announced list fit
AddrCountFits_strict(need, max_size) == ULt(need, max_size)

AddrCountFits(need, max_size) == ULe(need, max_size)

AddrList(n, rh, max_size, cx) ==
    IF rh.st # "ok" THEN rh
    ELSE IF ~AddrCountFits(MIN_SIZE(n) + rh.val[4] * MIN_SIZE("NetworkAddress"), max_size)
    THEN Panic("BudgetUnderflow", "addr_ext count", rh.rest, <<>>)
    ELSE AddrTail(rh, ReadEach([i \in AddrRange(rh.val[4]) |-> "NetworkAddress"],
                               1, rh.rest, <<>>, cx))

\* the enum variant wrapped around the response that was read
Shaped(shape, r) ==
    IF r.st # "ok" THEN r ELSE Ok(<<shape, r.val>>, r.rest, r.budgets)

read(n, s, max_size, cx) ==
    LET d == Ty(n) IN
    CASE d.k = "int" ->
            IF ~ULe(d.w, max_size) THEN Panic("BudgetUnderflow", "int", s, <<>>)
            ELSE IF Len(s) < d.w THEN Panic("StreamUnderrun", "int", s, <<>>)
            ELSE Ok(IF cx.e = LE THEN from_le_bytes(Take(s, d.w), d.w)
                    ELSE from_be_bytes(Take(s, d.w), d.w),
                    Drop(s, d.w), <<>>)
      [] d.k = "bool" ->
            IF ~ULt(0, max_size) THEN Panic("BudgetUnderflow", "bool", s, <<>>)
            ELSE IF Len(s) < 1 THEN Panic("StreamUnderrun", "bool", s, <<>>)
            ELSE Ok(s[1] # 0, Tail(s), <<>>)
      [] d.k = "enum" ->
            EnumOf(d.vals, read(IF d.w = 1 THEN "u8" ELSE "u16", s, max_size, cx))
      [] d.k = "array" ->
            IF ~ArrayBudgetOk(MIN_SIZE(n), max_size)
            THEN Panic("BudgetUnderflow", "array", s, <<>>)
            ELSE LET capped == CapBudget(MAX_SIZE(n), max_size)
                 IN  IF cx.oc /\ ULt(capped, MIN_SIZE(n))
                     THEN Panic("ArithmeticOverflow", "array", s, <<>>)
                     ELSE ReadElems([i \in 1..d.n |-> d.t], 1, s,
                                    capped - MIN_SIZE(n), <<>>, <<>>, None, cx)
      [] d.k = "sizevec" ->
            SizeVecElems(d, read(d.u, s, max_size, cx), max_size, cx)
      [] d.k = "hungry" -> Ok(<<>>, s, <<>>)
      [] d.k = "string" -> StringBody(d.n, read("u8", s, 1, cx), max_size)
      [] d.k = "le" -> read(d.t, s, max_size, OverwriteLittleEndian(cx))
      [] d.k = "be" -> read(d.t, s, max_size, OverwriteBigEndian(cx))
      [] d.k = "cluster_data" -> ClusterData_read(s, max_size)
      [] d.k = "record" ->
            LET slack == checked_sub(CapBudget(MAX_SIZE(n), max_size), MIN_SIZE(n))
            IN  IF slack = None
                THEN PanicAt("BudgetUnderflow", "record", n, s, <<>>)
                ELSE ReadElems(d.fields, 1, s, slack, <<>>, <<>>, None, cx)
      [] d.k = "addr_ext" ->
            IF ~ULe(MIN_SIZE(n), max_size)
            THEN Panic("BudgetUnderflow", "addr_ext", s, <<>>)
            ELSE AddrList(n, ReadEach(<<"StatusCode", "IeeeAddress", "NetworkAddress",
                                        "u8", "u8">>, 1, s, <<>>, cx),
                          max_size, cx)
      [] d.k = "addr_resp" ->
            Shaped(ChooseShape(max_size, MIN_SIZE(d.extended)),
                   read(IF ChooseShape(max_size, MIN_SIZE(d.extended)) = "Single"
                        THEN d.single ELSE d.extended, s, max_size, cx))

----------------------------------------------------------------------------
(* The values and byte strings the model draws its inputs from *)

SeqsUpTo(S, k) == UNION {[1..m -> S] : m \in 0..k}

\* "A", and the two bytes of U+00E9
StringBytes == {65, 195, 169}

RECURSIVE Values(_), Tuples(_)
Tuples(fields) ==
    IF fields = <<>> THEN {<<>>}
    ELSE {<<h>> \o t : h \in Values(Head(fields)), t \in Tuples(Tail(fields))}

Values(n) ==
    LET d == Ty(n) IN
    CASE n = "ExplicitRxIndicator" ->
            {<<a, <<0>>, <<\h01>>, <<\hE6>>, <<0>>, <<\h01 * 256 + \h04>>, <<\h01>>, p>> :
                a \in Values("IeeeAddress"),
                p \in {<<>>, <<\h10, \h54, 0, 0, 0>>}}
      [] n = "BasicCluster" ->
            {<<3, 1, 2, 1, s1, s2, <<>>, 1, 0, 255, <<>>, <<>>, <<>>, <<>>, <<>>,
               <<>>, \h71, TRUE, <<1>>, <<\h10>>, s3>> :
                s1 \in Values("String<32>"), s2 \in Values("String<32>"),
                s3 \in {<<>>, <<65>>}}
      [] n \in {"TransmitRequest<OverwriteLittleEndian<u16>>",
                 "TransmitRequest<OverwriteBigEndian<u16>>"} ->
            {<<1, <<<<0, 0, 0, 1>>>>, a, 255, <<1>>, p>> :
                a \in Values("NetworkAddress"), p \in Values("u16")}
      [] d.k = "int" ->
            (CASE d.w = 1 -> {1, 255}
               [] d.w = 2 -> {\h01 * 256 + \h04, \hFF * 256 + \hFE}
               [] d.w = 4 -> {<<1, 2>>, <<65535, 65534>>}
               [] d.w = 8 -> {<<0, 0, 0, 1>>,
                              <<\h84 * 256 + \hB4, \hDB * 256 + \hFF,
                                \hFE * 256 + \hEF, \hC8 * 256 + \h75>>})
      [] d.k = "bool" -> BOOLEAN
      [] d.k = "enum" -> d.vals
      [] d.k = "array" -> [1..d.n -> Values(d.t)]
      [] d.k = "sizevec" -> SeqsUpTo(Values(d.t), Min(d.n, MaxElems))
      [] d.k = "hungry" -> SeqsUpTo(Values(d.t), Min(d.n, MaxElems))
      [] d.k = "string" ->
            {b \in SeqsUpTo(StringBytes, Min(d.n, MaxElems)) : IsUtf8(b)}
      [] d.k = "le" -> Values(d.t)
      [] d.k = "be" -> Values(d.t)
      [] d.k = "cluster_data" -> SeqsUpTo({\h10, \h54}, MaxElems)
      [] d.k = "record" -> Tuples(d.fields)
      [] d.k = "addr_ext" ->
            {<<<<0>>, a, <<\hFF * 256 + \hFE>>, num, 0, l>> :
                a \in Values("IeeeAddress"),
                num \in 0..MaxElems,
                l \in SeqsUpTo(Values("NetworkAddress"), MaxElems)}
      [] d.k = "addr_resp" ->
            {<<"Single", v>> : v \in Values(d.single)}
                \cup {<<"Extended", v>> : v \in Values(d.extended)}

\* the Explicit RX Indicator payload of the example frame in zha.rs
ExampleRxPayload ==
    <<\h84, \hB4, \hDB, \hFF, \hFE, \hEF, \hC8, \h75, \h00, \h00, \h01, \hE6,
      \h00, \h00, \h01, \h04, \h01, \h10, \h54, \h00, \h00, \h00>>

\* byte strings handed to read that no write of the model produced
RawWires(n) ==
    CASE n = "ExplicitRxIndicator" -> {ExampleRxPayload}
      [] n = "SizeVec<U8Len, u8, 2>" -> {<<3, 1, 2, 3>>, <<2, 1>>, <<1, 7, 9>>}
      [] n = "SizeVec<U16Len, u16, 2>" -> {<<0, 3, 0, 1, 0, 2, 0, 3>>}
      [] n = "SizeVec<U8Len, String<2>, 2>" -> {<<3, 0, 0, 0>>, <<2, 1, 65, 0>>}
      [] n = "String<2>" -> {<<3, 65, 65, 65>>, <<1, 200>>, <<2, 65>>}
      [] n = "DiscoveryStatus" -> {<<4>>, <<\h40>>}
      [] n \in {"TransmitOpts", "ReceiveOpts"} -> {<<b>> : b \in 0..255}
      [] n = "DeliveryStatus" -> {<<\h03>>, <<\h31>>, <<\h75>>, <<\hFF>>}
      [] n = "bool" -> {<<2>>}
      [] OTHER -> {}

\* the types the codec runs exercise
CodecTypes ==
    {"u8", "u16", "u32", "u64", "bool", "DiscoveryStatus", "DeliveryStatus",
     "IeeeAddress",
     "ReceiveOpts", "TransmitOpts", "[u8; 2]", "[u16; 2]", "[String<2>; 2]",
     "SizeVec<U8Len, u8, 2>", "SizeVec<U16Len, u16, 2>", "SizeVec<U32Len, u8, 2>",
     "SizeVec<U8Len, String<2>, 2>", "SizeVec<U8Len, ClusterId, 255>",
     "HungryVec<u8, 2>", "HungryVec<u16, 2>", "String<2>", "String<16>",
     "OverwriteLittleEndian<u16>", "OverwriteBigEndian<u16>",
     "[TransmitRequest<OverwriteLittleEndian<u16>>; 2]",
     "[TransmitRequest<OverwriteBigEndian<u16>>; 2]",
     "LocalAtCommandRequest<u8>", "TransmitRequest<SizeVec<U8Len, u8, 2>>",
     "ExtendedTransmitStatus", "ExplicitRxIndicator",
     "ManyToOneRouteRequestIndicator", "NetworkAddressRequest",
     "MatchDescriptorRequest", "BasicCluster",
     "NetworkAddressResponseSingle", "NetworkAddressResponseExtended",
     "NetworkAddressResponse", "IeeeAddressResponse"}

\* the types that implement FrameData
FrameTypes ==
    {"LocalAtCommandRequest<u8>", "TransmitRequest<SizeVec<U8Len, u8, 2>>",
     "ExtendedTransmitStatus", "ExplicitRxIndicator",
     "ManyToOneRouteRequestIndicator"}

\* ExplicitRxIndicator ends in a ClusterData, whose codec the repository does
\* not hold: it is decoded from received bytes and written in frames only
CodecValues(n) == IF n = "ExplicitRxIndicator" THEN {} ELSE Values(n)

RECURSIVE UsesHungry(_)
UsesHungry(n) ==
    LET d == Ty(n) IN
    CASE d.k = "hungry" -> TRUE
      [] d.k \in {"array", "sizevec", "le", "be"} -> UsesHungry(d.t)
      [] d.k = "record" -> \E i \in 1..Len(d.fields) : UsesHungry(d.fields[i])
      [] OTHER -> FALSE

Max(a, b) == IF a >= b THEN a ELSE b

\* the max_size values a decode of bytes w of type n is tried with
Budgets(n, w, size) ==
    (0..(Max(Len(w), size) + MaxExtra))
        \cup (IF MAX_SIZE(n) = None THEN {}
              ELSE (MAX_SIZE(n) - 1)..(MAX_SIZE(n) + MaxExtra))

----------------------------------------------------------------------------
(* A codec run: write a value to a stream, or receive bytes, then read *)

Cx == [e |-> endian, oc |-> overflow_checks, hl |-> hungry_len]

FrameIdle ==
    /\ sink = <<>> /\ checksum = 0 /\ pending = <<>> /\ fpc = "idle"
    /\ usize_bytes = 8

VecIdle == vec = <<>> /\ cap = 0 /\ push_res = "none"

ThreadsIdle == threads = <<>>

NodeIdle ==
    /\ node = <<0, 0>>
    /\ node_set = [lt |-> "Coordinator", cd |-> FALSE, ud |-> FALSE, fb |-> "F868Mhz"]
    /\ node_calls = 0
    /\ npc = "none"

CodecIdle ==
    /\ endian = BE /\ overflow_checks = TRUE /\ hungry_len = 1
    /\ wire = <<>> /\ budget = 0 /\ out = NoResult /\ pc = "idle"

Init ==
    /\ ty \in CodecTypes
    /\ endian \in {LE, BE}
    /\ overflow_checks \in BOOLEAN
    /\ hungry_len \in (IF UsesHungry(ty) THEN {1, 2, 4, 8} ELSE {1})
    /\ \/ val \in CodecValues(ty) /\ wire = <<>> /\ pc = "start"
       \/ val = <<>> /\ wire \in RawWires(ty) /\ pc = "received"
    /\ budget = 0
    /\ out = NoResult
    /\ FrameIdle
    /\ VecIdle
    /\ ThreadsIdle
    /\ NodeIdle

\* InnerData::write of val to an empty stream
Encode ==
    /\ pc = "start"
    /\ wire' = write(ty, val, Cx)
    /\ pc' = "encoded"
    /\ UNCHANGED <<ty, val, endian, overflow_checks, hungry_len, budget, out>>
    /\ UNCHANGED <<frameVars, vecVars, threadVars, nodeVars>>

\* InnerData::read of the bytes a write produced, with some max_size
Decode ==
    /\ pc = "encoded"
    /\ \E b \in Budgets(ty, wire, byte_size(ty, val)) :
          /\ budget' = b
          /\ out' = read(ty, wire, b, Cx)
    /\ pc' = "decoded"
    /\ UNCHANGED <<ty, val, endian, overflow_checks, hungry_len, wire>>
    /\ UNCHANGED <<frameVars, vecVars, threadVars, nodeVars>>

\* InnerData::read of received bytes, with some max_size
DecodeRaw ==
    /\ pc = "received"
    /\ \E b \in Budgets(ty, wire, 0) :
          /\ budget' = b
          /\ out' = read(ty, wire, b, Cx)
    /\ pc' = "decoded_raw"
    /\ UNCHANGED <<ty, val, endian, overflow_checks, hungry_len, wire>>
    /\ UNCHANGED <<frameVars, vecVars, threadVars, nodeVars>>

Next == Encode \/ Decode \/ DecodeRaw

Spec == Init /\ [][Next]_vars

----------------------------------------------------------------------------
(* Frame::write, one sink write per step *)

\* mutant: the byte is added to the checksum
wrapping_sub_added(a, b) == (a + b) % 256

\* u8::wrapping_sub
wrapping_sub(a, b) == (a - b + 256) % 256

\* the seed of the checksum, 0xff
ChecksumSeed == 255

\* <usize as InnerData>::write on the frame's stream: usize::BITS / 8 bytes
\* in the order ApiWriteStream::endianness() reports, which is BigEndian
WriteUsize(v, w) == to_be_bytes(FromUsize(v, w), w)

FrameCx == [e |-> BE, oc |-> overflow_checks, hl |-> hungry_len]

InitFrame ==
    /\ ty \in FrameTypes
    /\ val \in Values(ty)
    /\ usize_bytes \in {2, 4, 8}
    /\ endian = BE /\ overflow_checks = TRUE /\ hungry_len = 1
    /\ wire = <<>> /\ budget = 0 /\ out = NoResult /\ pc = "idle"
    /\ sink = <<>> /\ checksum = 0 /\ pending = <<>> /\ fpc = "delimiter"
    /\ VecIdle
    /\ ThreadsIdle
    /\ NodeIdle

\* stream.write(&[0x7e])
WriteDelimiter ==
    /\ fpc = "delimiter"
    /\ sink' = sink \o <<\h7E>>
    /\ fpc' = "length"
    /\ UNCHANGED <<checksum, pending, usize_bytes, codecVars, vecVars, threadVars, nodeVars>>

\* (self.0.byte_size() + 1).write(stream); let mut checksum = 0xffu8
WriteLength ==
    /\ fpc = "length"
    /\ sink' = sink \o WriteUsize(byte_size(ty, val) + 1, usize_bytes)
    /\ checksum' = ChecksumSeed
    /\ fpc' = "tag"
    /\ UNCHANGED <<pending, usize_bytes, codecVars, vecVars, threadVars, nodeVars>>

\* cs_stream.write(&[T::API_TYPE]), then self.0.write(cs_stream) starts
WriteTag ==
    /\ fpc = "tag"
    /\ checksum' = wrapping_sub(checksum, API_TYPE(ty))
    /\ sink' = sink \o <<API_TYPE(ty)>>
    /\ pending' = write(ty, val, FrameCx)
    /\ fpc' = "payload"
    /\ UNCHANGED <<usize_bytes, codecVars, vecVars, threadVars, nodeVars>>

\* one byte of the payload passes through cs_stream
WritePayload ==
    /\ fpc = "payload"
    /\ pending # <<>>
    /\ checksum' = wrapping_sub(checksum, Head(pending))
    /\ sink' = sink \o <<Head(pending)>>
    /\ pending' = Tail(pending)
    /\ UNCHANGED <<fpc, usize_bytes, codecVars, vecVars, threadVars, nodeVars>>

\* stream.write(&[checksum])
WriteChecksum ==
    /\ fpc = "payload"
    /\ pending = <<>>
    /\ sink' = sink \o <<checksum>>
    /\ fpc' = "done"
    /\ UNCHANGED <<checksum, pending, usize_bytes, codecVars, vecVars, threadVars, nodeVars>>

NextFrame ==
    WriteDelimiter \/ WriteLength \/ WriteTag \/ WritePayload \/ WriteChecksum

FrameSpec == InitFrame /\ [][NextFrame]_vars

----------------------------------------------------------------------------
(* The Vec<T, N> behind SizeVec and HungryVec, reached through DerefMut *)

PushValues == {0, 1, 255}

\* mutant: the vector takes one element more than its capacity
push_grows(v, n, x) ==
    IF Len(v) <= n THEN [vec |-> Append(v, x), res |-> "ok"]
    ELSE [vec |-> v, res |-> "err"]

\* the result of Vec::push on a vector of capacity n
push(v, n, x) ==
    IF Len(v) < n THEN [vec |-> Append(v, x), res |-> "ok"]
    ELSE [vec |-> v, res |-> "err"]

InitVec ==
    /\ cap \in 0..MaxCap
    /\ vec = <<>>
    /\ push_res = "none"
    /\ ty = "SizeVec<U8Len, u8, 2>" /\ val = <<>>
    /\ CodecIdle
    /\ FrameIdle
    /\ ThreadsIdle
    /\ NodeIdle

Push ==
    /\ \E x \in PushValues :
          /\ vec' = push(vec, cap, x).vec
          /\ push_res' = push(vec, cap, x).res
    /\ UNCHANGED <<cap, codecVars, frameVars, threadVars, nodeVars>>

NextVec == Push

VecSpec == InitVec /\ [][NextVec]_vars

----------------------------------------------------------------------------
(* Codec operations on concurrent threads, each with a stream of its own:  *)
(* a thread runs Frame::write into its own sink, or the derived read of a  *)
(* record from its own stream, one stream access per step                  *)

NumThreads == 2

Threads == 1..NumThreads

\* the stream every thread's codec sees: big-endian, overflow checks on
ThreadCx == [e |-> BE, oc |-> TRUE, hl |-> 1]

\* a thread about to run op on its own stream: the locals of Frame::write
\* (checksum, the payload still to pass through cs_stream) and of the derived
\* read (field_size, the fields read so far)
Thread(op, t, v, w, b) ==
    [op |-> op, ty |-> t, val |-> v, wire |-> w, budget |-> b,
     sink |-> <<>>, rest |-> w, checksum |-> 0, pending |-> <<>>,
     field_size |-> 0, acc |-> <<>>,
     tpc |-> IF op = "write" THEN "delimiter" ELSE "read", res |-> ""]

\* the operations the threads are started with
ThreadJobs ==
    {Thread("write", "ManyToOneRouteRequestIndicator", v, <<>>, 0) :
        v \in {x \in Values("ManyToOneRouteRequestIndicator") :
                  x[2] = <<\h01 * 256 + \h04>> /\ x[3] = <<1>>}}
    \cup {Thread("read", "NetworkAddressRequest", <<>>,
                 write("NetworkAddressRequest", <<<<<<0, 0, 0, 1>>>>, TRUE, 1>>,
                       ThreadCx), b) : b \in {9, 11}}
    \cup {Thread("read", "NetworkAddressRequest", <<>>, <<0, 0, 0, 1>>, 10)}

\* mutant: the checksum is one cell that every thread's write uses
ChecksumOf_shared(t) == 1

\* the thread whose frame holds the `let mut checksum` that the write of
\* thread t updates: its own
ChecksumOf(t) == t

InitThreads ==
    /\ threads \in [Threads -> ThreadJobs]
    /\ usize_bytes \in {2, 8}
    /\ sink = <<>> /\ checksum = 0 /\ pending = <<>> /\ fpc = "idle"
    /\ ty = "ManyToOneRouteRequestIndicator" /\ val = <<>>
    /\ CodecIdle
    /\ VecIdle
    /\ NodeIdle

\* stream.write(&[0x7e])
ThreadWriteDelimiter(t) ==
    /\ threads[t].tpc = "delimiter"
    /\ threads' = [threads EXCEPT ![t].sink = @ \o <<\h7E>>,
                                  ![t].tpc = "length"]
    /\ UNCHANGED <<codecVars, frameVars, vecVars, nodeVars>>

\* (self.0.byte_size() + 1).write(stream); let mut checksum = 0xffu8
ThreadWriteLength(t) ==
    /\ threads[t].tpc = "length"
    /\ threads' =
          [threads EXCEPT
              ![t].sink = @ \o WriteUsize(byte_size(threads[t].ty, threads[t].val) + 1,
                                          usize_bytes),
              ![ChecksumOf(t)].checksum = ChecksumSeed,
              ![t].tpc = "tag"]
    /\ UNCHANGED <<codecVars, frameVars, vecVars, nodeVars>>

\* cs_stream.write(&[T::API_TYPE]), then self.0.write(cs_stream) starts
ThreadWriteTag(t) ==
    /\ threads[t].tpc = "tag"
    /\ threads' =
          [threads EXCEPT
              ![ChecksumOf(t)].checksum = wrapping_sub(@, API_TYPE(threads[t].ty)),
              ![t].sink = @ \o <<API_TYPE(threads[t].ty)>>,
              ![t].pending = write(threads[t].ty, threads[t].val, ThreadCx),
              ![t].tpc = "payload"]
    /\ UNCHANGED <<codecVars, frameVars, vecVars, nodeVars>>

\* one byte of the payload passes through cs_stream
ThreadWritePayload(t) ==
    /\ threads[t].tpc = "payload"
    /\ threads[t].pending # <<>>
    /\ threads' =
          [threads EXCEPT
              ![ChecksumOf(t)].checksum = wrapping_sub(@, Head(threads[t].pending)),
              ![t].sink = @ \o <<Head(threads[t].pending)>>,
              ![t].pending = Tail(@)]
    /\ UNCHANGED <<codecVars, frameVars, vecVars, nodeVars>>

\* stream.write(&[checksum])
ThreadWriteChecksum(t) ==
    /\ threads[t].tpc = "payload"
    /\ threads[t].pending = <<>>
    /\ threads' = [threads EXCEPT
                      ![t].sink = @ \o <<threads[ChecksumOf(t)].checksum>>,
                      ![t].tpc = "done",
                      ![t].res = "ok"]
    /\ UNCHANGED <<codecVars, frameVars, vecVars, nodeVars>>

\* the thread after the budget check that opens the derived read
ReadStarted(th, slack) ==
    IF slack = None THEN [th EXCEPT !.tpc = "done", !.res = "panic"]
    ELSE [th EXCEPT !.field_size = slack, !.tpc = "fields"]

\* the thread after the read r of its next field f
FieldRead(th, f, r) ==
    IF r.st # "ok"
    THEN [th EXCEPT !.rest = r.rest, !.tpc = "done", !.res = "panic"]
    ELSE [th EXCEPT !.acc = Append(@, r.val[1]),
                    !.rest = r.rest,
                    !.field_size = r.budgets[1] - byte_size(f, r.val[1])]

\* let mut field_size = Self::MAX_SIZE.map_or(..).checked_sub(..).expect(..)
ThreadReadStart(t) ==
    /\ threads[t].tpc = "read"
    /\ threads' =
          [threads EXCEPT
              ![t] = ReadStarted(@, checked_sub(CapBudget(MAX_SIZE(@.ty), @.budget),
                                                MIN_SIZE(@.ty)))]
    /\ UNCHANGED <<codecVars, frameVars, vecVars, nodeVars>>

\* one field of the record is read from the thread's stream
ThreadReadField(t) ==
    /\ threads[t].tpc = "fields"
    /\ Len(threads[t].acc) < Len(Ty(threads[t].ty).fields)
    /\ threads' =
          [threads EXCEPT
              ![t] = FieldRead(@, Ty(@.ty).fields[Len(@.acc) + 1],
                               ReadElems(<<Ty(@.ty).fields[Len(@.acc) + 1]>>, 1,
                                         @.rest, @.field_size, <<>>, <<>>, None,
                                         ThreadCx))]
    /\ UNCHANGED <<codecVars, frameVars, vecVars, nodeVars>>

\* Self { .. } is returned
ThreadReadReturn(t) ==
    /\ threads[t].tpc = "fields"
    /\ Len(threads[t].acc) = Len(Ty(threads[t].ty).fields)
    /\ threads' = [threads EXCEPT ![t].tpc = "done", ![t].res = "ok"]
    /\ UNCHANGED <<codecVars, frameVars, vecVars, nodeVars>>

NextThreads ==
    \E t \in Threads :
        \/ ThreadWriteDelimiter(t)
        \/ ThreadWriteLength(t)
        \/ ThreadWriteTag(t)
        \/ ThreadWritePayload(t)
        \/ ThreadWriteChecksum(t)
        \/ ThreadReadStart(t)
        \/ ThreadReadField(t)
        \/ ThreadReadReturn(t)

ThreadSpec == InitThreads /\ [][NextThreads]_vars

----------------------------------------------------------------------------
(* NodeDescriptorOpts: a bit-packed pair of bytes with setters and getters *)

\* the most setter calls made on one NodeDescriptorOpts
MaxCalls == 3

Bit(x, i) == (x \div 2^i) % 2
BitAnd(a, b) == SumSeq([i \in 1..8 |-> Bit(a, i - 1) * Bit(b, i - 1) * 2^(i - 1)])
BitOr(a, b) == a + b - BitAnd(a, b)
Shl(b, k) == (b * 2^k) % 256

LogicalType == {"Coordinator", "Router", "EndDevice"}
FrequencyBand == {"F868Mhz", "F900Mhz", "F2_4Ghz"}

ResultOk(x) == <<"Ok", x>>
ReservedError == <<"Err", "ReservedError">>

BoolAsU8(b) == IF b THEN 1 ELSE 0

set_logical_type(slf, logical_type) ==
    <<BitOr(BitAnd(slf[1], 248),
            CASE logical_type = "Coordinator" -> 0
              [] logical_type = "Router" -> 1
              [] logical_type = "EndDevice" -> 2),
      slf[2]>>

logical_type(slf) ==
    CASE BitAnd(slf[1], 3) = 0 -> ResultOk("Coordinator")
      [] BitAnd(slf[1], 3) = 1 -> ResultOk("Router")
      [] BitAnd(slf[1], 3) = 2 -> ResultOk("EndDevice")
      [] OTHER -> ReservedError

set_complex_desc_supported(slf, b) ==
    <<BitOr(BitAnd(slf[1], 247), Shl(BoolAsU8(b), 3)), slf[2]>>

complex_desc_supported(slf) == BitAnd(slf[1], Shl(1, 4)) # 0

set_user_desc_supported(slf, b) ==
    <<BitOr(BitAnd(slf[1], 239), Shl(BoolAsU8(b), 4)), slf[2]>>

user_desc_supported(slf) == BitAnd(slf[1], Shl(1, 5)) # 0

set_freq_band(slf, freq_band) ==
    <<BitOr(BitAnd(slf[1], 7),
            CASE freq_band = "F868Mhz" -> 8
              [] freq_band = "F900Mhz" -> 32
              [] freq_band = "F2_4Ghz" -> 64),
      slf[2]>>

freq_band(slf) ==
    CASE BitAnd(slf[1], 248) = 8 -> ResultOk("F868Mhz")
      [] BitAnd(slf[1], 248) = 32 -> ResultOk("F900Mhz")
      [] BitAnd(slf[1], 248) = 64 -> ResultOk("F2_4Ghz")
      [] OTHER -> ReservedError

\* NodeDescriptorOpts::new
new(lt, cd, ud, fb) ==
    set_freq_band(
        set_user_desc_supported(
            set_complex_desc_supported(
                set_logical_type(<<0, 0>>, lt), cd), ud), fb)

InitNode ==
    /\ NodeIdle
    /\ ty = "u8" /\ val = 0
    /\ CodecIdle
    /\ FrameIdle
    /\ VecIdle
    /\ ThreadsIdle

New ==
    /\ npc = "none"
    /\ \E lt \in LogicalType, cd \in BOOLEAN, ud \in BOOLEAN, fb \in FrequencyBand :
          /\ node' = new(lt, cd, ud, fb)
          /\ node_set' = [lt |-> lt, cd |-> cd, ud |-> ud, fb |-> fb]
    /\ npc' = "live"
    /\ UNCHANGED <<node_calls, codecVars, frameVars, vecVars, threadVars>>

SetLogicalType ==
    /\ npc = "live" /\ node_calls < MaxCalls
    /\ \E lt \in LogicalType :
          /\ node' = set_logical_type(node, lt)
          /\ node_set' = [node_set EXCEPT !.lt = lt]
    /\ node_calls' = node_calls + 1
    /\ UNCHANGED <<npc, codecVars, frameVars, vecVars, threadVars>>

SetComplexDescSupported ==
    /\ npc = "live" /\ node_calls < MaxCalls
    /\ \E cd \in BOOLEAN :
          /\ node' = set_complex_desc_supported(node, cd)
          /\ node_set' = [node_set EXCEPT !.cd = cd]
    /\ node_calls' = node_calls + 1
    /\ UNCHANGED <<npc, codecVars, frameVars, vecVars, threadVars>>

SetUserDescSupported ==
    /\ npc = "live" /\ node_calls < MaxCalls
    /\ \E ud \in BOOLEAN :
          /\ node' = set_user_desc_supported(node, ud)
          /\ node_set' = [node_set EXCEPT !.ud = ud]
    /\ node_calls' = node_calls + 1
    /\ UNCHANGED <<npc, codecVars, frameVars, vecVars, threadVars>>

SetFreqBand ==
    /\ npc = "live" /\ node_calls < MaxCalls
    /\ \E fb \in FrequencyBand :
          /\ node' = set_freq_band(node, fb)
          /\ node_set' = [node_set EXCEPT !.fb = fb]
    /\ node_calls' = node_calls + 1
    /\ UNCHANGED <<npc, codecVars, frameVars, vecVars, threadVars>>

NextNode ==
    \/ New
    \/ SetLogicalType
    \/ SetComplexDescSupported
    \/ SetUserDescSupported
    \/ SetFreqBand

NodeSpec == InitNode /\ [][NextNode]_vars

----------------------------------------------------------------------------
(* Writes of long vectors and strings: the count no longer fits one byte *)

LongTypes ==
    {"SizeVec<U8Len, u8, 300>", "SizeVec<U16Len, u8, 300>",
     "SizeVec<U32Len, u8, 300>", "SizeVec<U64Len, u8, 300>", "String<300>"}

\* element counts around the largest value of a one-byte prefix
LongCounts == {0, 1, 2, 127, 128, 255, 256, 257, 300}

LongValues(n) ==
    {[i \in 1..k |-> IF Ty(n).k = "string" THEN 65 ELSE 0] : k \in LongCounts}

InitLong ==
    /\ ty \in LongTypes
    /\ val \in LongValues(ty)
    /\ endian \in {LE, BE}
    /\ overflow_checks \in BOOLEAN
    /\ hungry_len = 1
    /\ wire = <<>> /\ pc = "start"
    /\ budget = 0
    /\ out = NoResult
    /\ FrameIdle
    /\ VecIdle
    /\ ThreadsIdle
    /\ NodeIdle

NextLong == Encode

LongSpec == InitLong /\ [][NextLong]_vars

----------------------------------------------------------------------------
(* Properties *)

Decoded == pc = "decoded"
DecodedAny == pc \in {"decoded", "decoded_raw"}

\* C1: round trip: reading the bytes write(v) produced, with any budget of at
\* least byte_size(v), returns a value equal to v, for every codec type.
C1_RoundTrip ==
    (Decoded /\ budget >= byte_size(ty, val)) => (out.st = "ok" /\ out.val = val)

\* C2: bounds: MIN_SIZE <= byte_size(v) for every value of every codec type,
\* and byte_size(v) <= m when MAX_SIZE is Some(m).
C2_Bounds ==
    (pc \in {"encoded", "decoded"}) =>
        /\ MIN_SIZE(ty) <= byte_size(ty, val)
        /\ MAX_SIZE(ty) # None => byte_size(ty, val) <= MAX_SIZE(ty)

\* C3: directly after the delimiter Frame::write emits a length field of
\* exactly 2 bytes, big-endian, whose value is payload.byte_size() + 1.
C3_LengthField ==
    fpc = "tag" =>
        sink = <<\h7E, ((byte_size(ty, val) + 1) \div 256) % 256,
                 (byte_size(ty, val) + 1) % 256>>

\* C4: the checksum starts at 0xFF, every tag and payload byte is subtracted
\* from it modulo 256, the delimiter and the length bytes are not, and the
\* last byte c of the frame satisfies (tag + sum of payload bytes + c) mod 256
\* = 0xFF.
C4_Checksum ==
    /\ fpc = "tag" => checksum = \hFF
    /\ fpc = "payload" =>
          (checksum + SumSeq(Drop(sink, 1 + usize_bytes))) % 256 = \hFF
    /\ fpc = "done" =>
          /\ sink[Len(sink)] = checksum
          /\ (API_TYPE(ty) + SumSeq(write(ty, val, FrameCx)) + sink[Len(sink)]) % 256
                = \hFF

\* C4 witness: the frame of the example in zha.rs is complete; its tag and
\* payload sum past 255 and its checksum byte is 0xE1
C4_Witness ==
    /\ fpc = "done"
    /\ ty = "ExplicitRxIndicator"
    /\ Drop(sink, 1 + usize_bytes) = <<\h91>> \o ExampleRxPayload \o <<\hE1>>

RECURSIVE PayloadFrom(_)
\* the bytes of the fields i, i+1, ... of the frame's payload, first to last
PayloadFrom(i) ==
    IF i > Len(Ty(ty).fields) THEN <<>>
    ELSE write(Ty(ty).fields[i], val[i], FrameCx) \o PayloadFrom(i + 1)

\* C5: Frame::write writes the delimiter 0x7E first, then the length, then the
\* type tag, then the payload bytes in field declaration order, then the
\* checksum; the checksum is the last byte and nothing is written after it.
C5_WriteOrder ==
    /\ fpc = "delimiter" => sink = <<>>
    /\ fpc = "length" => sink = <<\h7E>>
    /\ fpc = "tag" => Len(sink) = 1 + usize_bytes /\ sink[1] = \h7E
    /\ fpc = "payload" =>
          /\ sink[1] = \h7E
          /\ sink[2 + usize_bytes] = API_TYPE(ty)
          /\ Drop(sink, 2 + usize_bytes) \o pending = PayloadFrom(1)
    /\ fpc = "done" =>
          /\ sink[1] = \h7E
          /\ sink[2 + usize_bytes] = API_TYPE(ty)
          /\ SubSeq(sink, 3 + usize_bytes, Len(sink) - 1) = PayloadFrom(1)
          /\ sink[Len(sink)] = checksum
          /\ ~ENABLED NextFrame

\* C5 witness: a complete frame whose payload has several fields
C5_Witness ==
    /\ fpc = "done"
    /\ ty = "ExtendedTransmitStatus"
    /\ Len(sink) = 3 + usize_bytes + 6

\* the value the example payload of zha.rs stands for
ExampleRxValue ==
    << <<<<\h84 * 256 + \hB4, \hDB * 256 + \hFF, \hFE * 256 + \hEF, \hC8 * 256 + \h75>>>>,
       <<\h00>>, <<\h01>>, <<\hE6>>, <<\h00>>, <<\h01 * 256 + \h04>>, <<\h01>>,
       <<\h10, \h54, \h00, \h00, \h00>> >>

DecodesExample ==
    /\ pc = "decoded_raw"
    /\ ty = "ExplicitRxIndicator"
    /\ wire = ExampleRxPayload
    /\ endian = BE
    /\ budget = 22

TwoVarRecords == {"MatchDescriptorRequest", "BasicCluster"}
FieldA(n) == IF n = "MatchDescriptorRequest" THEN 3 ELSE 5
FieldB(n) == FieldA(n) + 1
OtherMins(n, i) == MIN_SIZE(n) - MIN_SIZE(Ty(n).fields[i])

SlackForwarding(total) ==
    LET a == FieldA(ty)
        b == FieldB(ty)
    IN  /\ Len(out.budgets) >= a => out.budgets[a] = total - OtherMins(ty, a)
        /\ out.st = "ok" =>
              out.budgets[b] = MIN_SIZE(Ty(ty).fields[b])
                  + (out.budgets[a] - byte_size(Ty(ty).fields[a], out.val[a]))

\* C7 as stated: A is decoded with budget b minus the other fields' MIN_SIZE,
\* and B with its MIN_SIZE plus the slack A left unclaimed.
C7_Original ==
    (Decoded /\ ty \in TwoVarRecords) => SlackForwarding(budget)

\* C7 as amended: A is decoded with budget min(b, MAX_SIZE) (b when MAX_SIZE is
\* None) minus the other fields' MIN_SIZE, and B with its MIN_SIZE plus the
\* slack A left unclaimed.
C7_SlackForwarding ==
    (Decoded /\ ty \in TwoVarRecords) =>
        SlackForwarding(IF MAX_SIZE(ty) = None THEN budget
                        ELSE Min(MAX_SIZE(ty), budget))

\* C7 witness: a record whose budget exceeds its MAX_SIZE is decoded, and its
\* first string leaves slack to the second
C7_Witness ==
    /\ Decoded
    /\ ty = "BasicCluster"
    /\ out.st = "ok"
    /\ budget > MAX_SIZE(ty)
    /\ Len(val[5]) > 0
    /\ out.budgets[6] > MIN_SIZE("String<32>")

\* C8: reading a derived record with max_size < MIN_SIZE panics and returns no
\* value, and a max_size >= MIN_SIZE is never rejected as an underflow by the
\* record's own check.
C8_RecordUnderflow ==
    (DecodedAny /\ Ty(ty).k = "record") =>
        /\ budget < MIN_SIZE(ty) =>
              /\ out.st = "panic"
              /\ out.why = "BudgetUnderflow"
              /\ out.site = "record"
              /\ out.at = ty
              /\ out.rest = wire
        /\ budget >= MIN_SIZE(ty) =>
              ~(out.why = "BudgetUnderflow" /\ out.site = "record" /\ out.at = ty)

\* C8 witness: a record read with one byte less than its MIN_SIZE has panicked
C8_Witness ==
    /\ Decoded
    /\ ty = "NetworkAddressRequest"
    /\ budget = MIN_SIZE(ty) - 1
    /\ out.st = "panic"
    /\ out.why = "BudgetUnderflow"

AddrResponses == {"NetworkAddressResponse", "IeeeAddressResponse"}

\* C9: the address-query response read returns the Extended shape exactly when
\* max_size >= 13, the Single shape otherwise, and Single for max_size = 11.
C9_Disambiguation ==
    (Decoded /\ ty \in AddrResponses) =>
        /\ out.st = "ok" =>
              (out.val[1] = "Extended" <=> budget >= AddrExtMinSize)
        /\ out.st = "ok" => out.val[1] \in {"Single", "Extended"}
        /\ budget \in MIN_SIZE(Ty(ty).single)..(AddrExtMinSize - 1) =>
              (out.st = "ok" /\ out.val[1] = "Single")
        /\ (out.st = "panic" /\ budget < AddrExtMinSize) => out.site = "record"
        /\ (out.st = "panic" /\ budget >= AddrExtMinSize) => out.site # "record"

\* C9 witness: an Extended value is read back as Extended with budget 13, the
\* smallest that selects the shape
C9_Witness ==
    /\ Decoded
    /\ ty \in AddrResponses
    /\ budget = AddrExtMinSize
    /\ out.st = "ok"
    /\ out.val[1] = "Extended"

\* C10: a vector of capacity N never holds more than N elements; a push below
\* N succeeds and appends the element, a push at count = N fails and leaves the
\* contents unchanged.
C10_Capacity ==
    [][ /\ Len(vec') <= cap
        /\ Len(vec) < cap =>
              /\ push_res' = "ok"
              /\ Len(vec') = Len(vec) + 1
              /\ SubSeq(vec', 1, Len(vec)) = vec
        /\ Len(vec) = cap => (push_res' = "err" /\ vec' = vec) ]_vars

\* C10 witness: a full vector of capacity MaxCap after a refused push
C10_Witness == cap > 0 /\ Len(vec) = cap /\ push_res = "err"

IntTypes == {"u8", "u16", "u32", "u64"}

\* byte k of an integer of width w, byte 0 being the least significant
ByteAt(v, w, k) ==
    IF w <= 2 THEN (v \div (256 ^ k)) % 256
    ELSE (v[(w \div 2) - (k \div 2)] \div (256 ^ (k % 2))) % 256

\* C11: an integer type of width W has MIN_SIZE = MAX_SIZE = byte_size = W, is
\* written as W bytes, least significant first on a little-endian stream and
\* most significant first on a big-endian one, is read back from them as the
\* same value, and its read panics exactly when max_size < W.
C11_Integers ==
    (ty \in IntTypes /\ pc \in {"encoded", "decoded"}) =>
        LET w == Ty(ty).w IN
        /\ MIN_SIZE(ty) = w /\ MAX_SIZE(ty) = w /\ byte_size(ty, val) = w
        /\ Len(wire) = w
        /\ \A i \in 1..w :
              wire[i] = ByteAt(val, w, IF endian = LE THEN i - 1 ELSE w - i)
        /\ Decoded =>
              /\ out.st = "panic" <=> budget < w
              /\ out.st = "panic" => out.why = "BudgetUnderflow"
              /\ out.st = "ok" => (out.val = val /\ out.rest = <<>>)

\* C11 witness: the u32 0x00010002 went through a little-endian stream as
\* 02 00 01 00 and was read back with a budget of exactly 4
C11_Witness ==
    /\ Decoded /\ ty = "u32" /\ endian = LE /\ budget = 4
    /\ val = <<1, 2>> /\ wire = <<2, 0, 1, 0>>
    /\ out.st = "ok"

\* the width of the count prefix of the SizeVec type under decode
PrefixWidth == MIN_SIZE(Ty(ty).u)

\* the count that the first PrefixWidth bytes of the wire stand for
WireCount ==
    IntoUsize(IF endian = LE THEN from_le_bytes(Take(wire, PrefixWidth), PrefixWidth)
              ELSE from_be_bytes(Take(wire, PrefixWidth), PrefixWidth),
              PrefixWidth)

SizeVecDecoded ==
    DecodedAny /\ Ty(ty).k = "sizevec" /\ Len(wire) >= PrefixWidth

\* C12: a SizeVec<L, T, N> read whose count prefix exceeds N panics; a read
\* that returns holds exactly the count of the prefix, never more than N
\* elements.
C12_CountOverCapacity ==
    SizeVecDecoded =>
        /\ WireCount > Ty(ty).n => out.st = "panic"
        /\ out.st = "ok" =>
              (Len(out.val) = WireCount /\ Len(out.val) <= Ty(ty).n)

\* C12 witness: the bytes 03 01 02 03 were read as a SizeVec of capacity 2
\* with budget enough for three elements, and the third element overflowed
\* the vector
C12_Witness ==
    /\ pc = "decoded_raw" /\ ty = "SizeVec<U8Len, u8, 2>"
    /\ wire = <<3, 1, 2, 3>> /\ budget >= 4
    /\ out.st = "panic" /\ out.why = "CapacityExceeded" /\ out.rest = <<>>

\* C13: a SizeVec<L, T, N> read panics whenever the budget left after the
\* count prefix is smaller than count * T::MIN_SIZE.
C13_BudgetShortfall ==
    (SizeVecDecoded /\ budget >= PrefixWidth
        /\ budget - PrefixWidth < WireCount * MIN_SIZE(Ty(ty).t)) =>
            out.st = "panic"

\* C14: a HungryVec<T, N> read with budget b takes the whole budget as
\* elements: for a fixed-size T it returns b / T::MIN_SIZE elements and leaves
\* the stream b bytes shorter (for a stream that holds b bytes and a count
\* within the capacity N).
C14_HungryConsumes ==
    (Decoded /\ Ty(ty).k = "hungry" /\ budget <= Len(wire)
        /\ budget \div MIN_SIZE(Ty(ty).t) <= Ty(ty).n) =>
            /\ out.st = "ok"
            /\ Len(out.val) = budget \div MIN_SIZE(Ty(ty).t)
            /\ Len(out.rest) =
                  Len(wire) - MIN_SIZE(Ty(ty).t) * (budget \div MIN_SIZE(Ty(ty).t))

StringTypes == {"String<2>", "String<16>"}

\* the bytes that follow the length byte of the wire
DeclaredBytes == SubSeq(wire, 2, 1 + wire[1])

StringSizes ==
    /\ MIN_SIZE(ty) = 1
    /\ MAX_SIZE(ty) = 1 + Ty(ty).n
    /\ pc \in {"encoded", "decoded"} =>
          (wire = <<Len(val)>> \o val /\ byte_size(ty, val) = 1 + Len(val))

StringAborts ==
    (DecodedAny /\ wire # <<>> /\ 1 + wire[1] > budget) => out.st = "panic"

StringReturns(valid) ==
    (DecodedAny /\ wire # <<>> /\ 1 + wire[1] <= budget /\ wire[1] <= Ty(ty).n
        /\ Len(wire) >= 1 + wire[1] /\ valid) =>
            /\ out.st = "ok"
            /\ out.val = DeclaredBytes
            /\ Len(out.val) = wire[1]

\* C15 as stated: String<N> has MIN_SIZE 1 and MAX_SIZE 1 + N, is written as
\* a length byte and the bytes, its read panics whenever 1 + the declared
\* length exceeds max_size, and otherwise returns the declared number of
\* bytes for every declared length <= N.
C15_Original ==
    ty \in StringTypes => (StringSizes /\ StringAborts /\ StringReturns(TRUE))

\* C15 as amended: ... and otherwise, when the declared bytes are valid
\* UTF-8, returns the declared number of bytes for every declared length
\* <= N.
C15_String ==
    ty \in StringTypes =>
        (StringSizes /\ StringAborts /\ StringReturns(IsUtf8(DeclaredBytes)))

\* C15 witness: a two-byte string was read back with a budget of exactly 3,
\* and the same string was refused with budget 2
C15_Witness ==
    /\ Decoded /\ ty = "String<2>" /\ val = <<195, 169>>
    /\ \/ budget = 3 /\ out.st = "ok" /\ out.val = val
       \/ budget = 2 /\ out.st = "panic" /\ out.why = "BudgetUnderflow"

OverwriteTypes == {"OverwriteLittleEndian<u16>", "OverwriteBigEndian<u16>"}

OverwriteArrays ==
    {"[TransmitRequest<OverwriteLittleEndian<u16>>; 2]",
     "[TransmitRequest<OverwriteBigEndian<u16>>; 2]"}

\* the order an override type forces on its inner value
Forced(n) == IF Ty(n).k = "le" THEN LE ELSE BE

\* the two bytes of the u16 v in the order e
U16Bytes(v, e) ==
    IF e = LE THEN <<ByteAt(v, 2, 0), ByteAt(v, 2, 1)>>
    ELSE <<ByteAt(v, 2, 1), ByteAt(v, 2, 0)>>

\* C16: a value under OverwriteLittleEndian (OverwriteBigEndian) is written
\* little-endian (big-endian) on a stream of either order and read back as
\* the same value, its MIN_SIZE, MAX_SIZE and byte_size are the inner type's,
\* and the fields written after it, here the network address of each array
\* element, are in the stream's own order.
C16_Overwrite ==
    /\ (ty \in OverwriteTypes /\ pc \in {"encoded", "decoded"}) =>
          /\ wire = U16Bytes(val, Forced(ty))
          /\ MIN_SIZE(ty) = MIN_SIZE("u16") /\ MAX_SIZE(ty) = MAX_SIZE("u16")
          /\ byte_size(ty, val) = byte_size("u16", val)
          /\ (Decoded /\ budget >= 2) => (out.st = "ok" /\ out.val = val)
    /\ (ty \in OverwriteArrays /\ pc \in {"encoded", "decoded"}) =>
          /\ Len(wire) = 30
          /\ \A k \in 1..2 :
                /\ SubSeq(wire, 15 * k - 1, 15 * k)
                      = U16Bytes(val[k][6], Forced(Ty(Ty(ty).t).fields[6]))
                /\ SubSeq(wire, 15 * k - 5, 15 * k - 4)
                      = U16Bytes(val[k][3][1], endian)
          /\ (Decoded /\ budget > 30) => (out.st = "ok" /\ out.val = val)

\* C16 witness: on a big-endian stream the payload 0x0104 of the first array
\* element went out as 04 01 under OverwriteLittleEndian, the network address
\* 0x0104 of the second element as 01 04, and both were read back
C16_Witness ==
    /\ Decoded /\ ty = "[TransmitRequest<OverwriteLittleEndian<u16>>; 2]"
    /\ endian = BE /\ out.st = "ok" /\ out.val = val
    /\ SubSeq(wire, 14, 15) = <<4, 1>>
    /\ SubSeq(wire, 25, 26) = <<1, 4>>

EnumTypes == {"DeliveryStatus", "DiscoveryStatus"}

\* C17: an enum read of an integer that is a declared discriminant returns
\* the variant of that discriminant, which is written as the same integer;
\* a read of any other integer panics and returns nothing.
C17_EnumDiscriminant ==
    (ty \in EnumTypes /\ DecodedAny /\ budget >= 1) =>
        /\ wire[1] \in Ty(ty).vals =>
              /\ out.st = "ok"
              /\ out.val = wire[1]
              /\ write(ty, out.val, Cx) = <<wire[1]>>
        /\ wire[1] \notin Ty(ty).vals =>
              /\ out.st = "panic"
              /\ out.why = "UnrecognizedDiscriminant"
              /\ out.val = <<>>
        /\ Decoded => (val \in Ty(ty).vals /\ wire = <<val>>)

\* C17 witness: the byte 0x31, a discriminant that DeliveryStatus leaves
\* out, was read and refused
C17_Witness ==
    /\ pc = "decoded_raw" /\ ty = "DeliveryStatus" /\ wire = <<\h31>>
    /\ budget >= 1 /\ out.st = "panic" /\ out.why = "UnrecognizedDiscriminant"

FlagTypes == {"TransmitOpts", "ReceiveOpts"}

\* C18: reading any byte b, 0..255, as a u8 flag set returns, and writing the
\* flag set that was read gives b again, whether or not its bits are named.
C18_FlagsPermissive ==
    (ty \in FlagTypes /\ DecodedAny /\ budget >= 1) =>
        /\ out.st = "ok"
        /\ out.rest = <<>>
        /\ write(ty, out.val, Cx) = wire

\* C18 witness: the byte 0x82, whose bit 7 no flag of ReceiveOpts names, was
\* read as a ReceiveOpts
C18_Witness ==
    /\ pc = "decoded_raw" /\ ty = "ReceiveOpts" /\ wire = <<\h82>>
    /\ budget >= 1 /\ out.st = "ok" /\ out.val = <<\h82>>

\* the sizes of the fields of the record type under the codec
FieldMins == [i \in 1..Len(Ty(ty).fields) |-> MIN_SIZE(Ty(ty).fields[i])]
FieldMaxes == [i \in 1..Len(Ty(ty).fields) |-> MAX_SIZE(Ty(ty).fields[i])]
FieldSizes == [i \in 1..Len(Ty(ty).fields) |-> byte_size(Ty(ty).fields[i], val[i])]

\* C19: a derived record's MIN_SIZE is the sum of its fields' MIN_SIZE, its
\* MAX_SIZE is Some(sum of the fields' MAX_SIZE) when every field has one and
\* None as soon as one field has none, and byte_size(v) is the sum of the
\* fields' byte_size; so BasicCluster has MIN_SIZE 21 and MAX_SIZE Some(453),
\* and MatchDescriptorRequest MIN_SIZE 6 and MAX_SIZE None.
C19_RecordSizes ==
    (Ty(ty).k = "record" /\ pc \in {"encoded", "decoded"}) =>
        /\ MIN_SIZE(ty) = SumSeq(FieldMins)
        /\ (\A i \in 1..Len(FieldMaxes) : FieldMaxes[i] # None) =>
              MAX_SIZE(ty) = SumSeq(FieldMaxes)
        /\ (\E i \in 1..Len(FieldMaxes) : FieldMaxes[i] = None) =>
              MAX_SIZE(ty) = None
        /\ byte_size(ty, val) = SumSeq(FieldSizes)
        /\ ty = "BasicCluster" => (MIN_SIZE(ty) = 21 /\ MAX_SIZE(ty) = 453)
        /\ ty = "MatchDescriptorRequest" => (MIN_SIZE(ty) = 6 /\ MAX_SIZE(ty) = None)
        /\ ty = "NetworkAddressRequest" => (MIN_SIZE(ty) = 10 /\ MAX_SIZE(ty) = 10)

\* C19 witness: a MatchDescriptorRequest, whose cluster lists have no MAX_SIZE,
\* holding two input clusters and one output cluster: 2 + 2 + (1 + 4) + (1 + 2)
C19_Witness ==
    /\ pc = "encoded" /\ ty = "MatchDescriptorRequest"
    /\ Len(val[3]) = 2 /\ Len(val[4]) = 1
    /\ byte_size(ty, val) = 12 /\ MAX_SIZE(ty) = None

\* the frame Frame::write produces when it runs alone
FrameAlone(t, v) ==
    <<\h7E>> \o WriteUsize(byte_size(t, v) + 1, usize_bytes) \o <<API_TYPE(t)>>
        \o write(t, v, ThreadCx)
        \o <<255 - ((API_TYPE(t) + SumSeq(write(t, v, ThreadCx))) % 256)>>

\* the thread's result is the one its operation gives when it runs alone
SameAsAlone(th, r) ==
    /\ th.op = "write" => th.sink = FrameAlone(th.ty, th.val)
    /\ th.op = "read" =>
          /\ th.res = r.st
          /\ th.rest = r.rest
          /\ r.st = "ok" => th.acc = r.val

\* C20: whatever the interleaving of the steps of the threads' writes and
\* reads, each on a stream of its own, every finished write has produced the
\* bytes, and every finished read the value, that it produces alone.
C20_Reentrant ==
    \A t \in Threads :
        threads[t].tpc = "done" =>
            SameAsAlone(threads[t],
                        read(threads[t].ty, threads[t].wire, threads[t].budget,
                             ThreadCx))

\* C20 witness: thread 1 has finished its frame while thread 2 is halfway
\* through the payload of a different frame
C20_Witness ==
    /\ threads[1].op = "write" /\ threads[1].tpc = "done"
    /\ threads[1].sink = FrameAlone(threads[1].ty, threads[1].val)
    /\ threads[2].op = "write" /\ threads[2].val # threads[1].val
    /\ threads[2].tpc = "payload"
    /\ Len(threads[2].pending) \in 1..10

\* C21: a [T; N] read is refused for underflow only when max_size is below
\* N * T::MIN_SIZE; with max_size equal to N * T::MIN_SIZE it returns N
\* elements, and so the command record LocalAtCommandRequest<u8>, whose
\* at_command is a [u8; 2], is read back at its exact size of 4 bytes.
C21_ArrayExactBudget ==
    /\ (Decoded /\ Ty(ty).k = "array") =>
          /\ (out.st = "panic" /\ out.why = "BudgetUnderflow" /\ out.site = "array")
                => budget < MIN_SIZE(ty)
          /\ budget = MIN_SIZE(ty) => (out.st = "ok" /\ Len(out.val) = Ty(ty).n)
    /\ (Decoded /\ ty = "LocalAtCommandRequest<u8>" /\ budget = MIN_SIZE(ty)) =>
          (out.st = "ok" /\ out.val = val)

\* field i of the record type under the codec has MIN_SIZE = MAX_SIZE
FixedField(i) == MIN_SIZE(Ty(ty).fields[i]) = MAX_SIZE(Ty(ty).fields[i])

\* the slack the record read held right before it read field i
SlackBefore(i) == out.budgets[i] - MIN_SIZE(Ty(ty).fields[i])

\* C22: in a record read a field with MIN_SIZE = MAX_SIZE takes exactly its
\* MIN_SIZE bytes whatever budget it is handed, and the slack the next field
\* starts from is the slack this field started from; a record of such fields
\* only takes exactly its MIN_SIZE bytes from the stream.
C22_FixedFieldSlack ==
    (DecodedAny /\ Ty(ty).k = "record") =>
        /\ \A i \in 1..Len(out.budgets) :
              (FixedField(i) /\ i < Len(out.budgets)) =>
                  SlackBefore(i + 1) = SlackBefore(i)
        /\ out.st = "ok" =>
              /\ \A i \in 1..Len(Ty(ty).fields) :
                    FixedField(i) =>
                        byte_size(Ty(ty).fields[i], out.val[i])
                            = MIN_SIZE(Ty(ty).fields[i])
              /\ (\A i \in 1..Len(Ty(ty).fields) : FixedField(i)) =>
                    Len(wire) - Len(out.rest) = MIN_SIZE(ty)

\* C22 witness: a BasicCluster read with slack to spare has handed the same
\* 5 bytes of slack through its four leading u8 fields to its first string
C22_Witness ==
    /\ Decoded /\ ty = "BasicCluster" /\ out.st = "ok"
    /\ SlackBefore(1) = 5 /\ SlackBefore(4) = 5 /\ SlackBefore(5) = 5
    /\ Len(out.val[5]) > 0 /\ SlackBefore(6) < 5

\* C23: for the address-query responses, reading write(v) with a budget of
\* exactly byte_size(v) returns v in both shapes: a Single value (11 bytes)
\* comes back as Single, and an Extended value whose num_addresses equals the
\* length of its address list comes back as Extended with the same list.
CountMatchesList == val[1] = "Single" \/ val[2][4] = Len(val[2][6])

C23_AddressRoundTrip ==
    (Decoded /\ ty \in AddrResponses /\ CountMatchesList
        /\ budget = byte_size(ty, val)) =>
        /\ out.st = "ok" /\ out.val = val /\ out.rest = <<>>
        /\ val[1] = "Single" => (budget = 11 /\ out.val[1] = "Single")
        /\ val[1] = "Extended" =>
              /\ out.val[1] = "Extended"
              /\ out.val[2][6] = val[2][6]
              /\ budget = 13 + 2 * Len(val[2][6])

C23_Witness ==
    /\ Decoded /\ ty = "NetworkAddressResponse" /\ budget = byte_size(ty, val)
    /\ val[1] = "Extended" /\ val[2][4] = 2 /\ Len(val[2][6]) = 2
    /\ val[2][6][1] # val[2][6][2]
    /\ out.st = "ok" /\ out.val = val

\* C24: for every codec type and value v, write(v) puts exactly byte_size(v)
\* bytes into the sink, HungryVec with its count prefix included, so that the
\* length byte_size + 1 of a frame counts the bytes between the length field
\* and the checksum.
C24_WrittenIsByteSize ==
    pc \in {"encoded", "decoded"} => Len(wire) = byte_size(ty, val)

\* C25: every read(stream, max_size) that returns a value v has taken exactly
\* byte_size(v) bytes from the stream, and at most max_size bytes: no read
\* goes beyond the budget it was given.
BytesRead == Len(wire) - Len(out.rest)

C25_ReadWithinBudget ==
    (DecodedAny /\ out.st = "ok") =>
        /\ BytesRead = byte_size(ty, out.val)
        /\ BytesRead <= budget

\* C26: slack invariant of the record read: at every field boundary the slack
\* plus the MIN_SIZE of the fields not yet read equals the clamped budget
\* minus the bytes consumed so far; the slack is never negative, and every
\* field is handed a budget of at least its own MIN_SIZE.
MinsFrom(i) ==
    SumSeq([j \in 1..(Len(Ty(ty).fields) - i + 1) |-> MIN_SIZE(Ty(ty).fields[i + j - 1])])

ConsumedBefore(i) ==
    SumSeq([j \in 1..(i - 1) |-> byte_size(Ty(ty).fields[j], out.val[j])])

C26_SlackInvariant ==
    (DecodedAny /\ Ty(ty).k = "record") =>
        /\ \A i \in 1..Len(out.budgets) :
              /\ SlackBefore(i) >= 0
              /\ out.budgets[i] >= MIN_SIZE(Ty(ty).fields[i])
        /\ out.st = "ok" =>
              \A i \in 1..Len(out.budgets) :
                  SlackBefore(i) + MinsFrom(i)
                      = CapBudget(MAX_SIZE(ty), budget) - ConsumedBefore(i)

\* C27: after NodeDescriptorOpts::new and any sequence of setter calls, each
\* getter (logical_type, complex_desc_supported, user_desc_supported,
\* freq_band) returns the value its own field was most recently set with.
C27_GettersReturnLastSet ==
    npc = "live" =>
        /\ logical_type(node) = ResultOk(node_set.lt)
        /\ complex_desc_supported(node) = node_set.cd
        /\ user_desc_supported(node) = node_set.ud
        /\ freq_band(node) = ResultOk(node_set.fb)

\* C28: every value the read of an extended address response returns has as
\* many addresses as its num_addresses says, at most 256 of them, and a
\* byte_size of at most max_size; the read aborts when 13 + 2 * num_addresses
\* is more than max_size.
ExtendedRead ==
    /\ DecodedAny
    /\ \/ Ty(ty).k = "addr_ext"
       \/ Ty(ty).k = "addr_resp" /\ budget >= AddrExtMinSize

ExtendedOut == IF Ty(ty).k = "addr_resp" THEN out.val[2] ELSE out.val

ExtendedType == IF Ty(ty).k = "addr_resp" THEN Ty(ty).extended ELSE ty

\* the num_addresses byte of the stream, after status, two addresses
AnnouncedCount == wire[12]

C28_ExtendedList ==
    ExtendedRead =>
        /\ out.st = "ok" =>
              /\ Len(ExtendedOut[6]) = ExtendedOut[4]
              /\ Len(ExtendedOut[6]) <= 256
              /\ byte_size(ExtendedType, ExtendedOut) <= budget
        /\ (Len(wire) >= 12 /\ AddrExtMinSize + 2 * AnnouncedCount > budget) =>
              out.st = "panic"

C28_Witness ==
    /\ ExtendedRead /\ ty = "IeeeAddressResponse" /\ out.st = "ok"
    /\ ExtendedOut[4] = 1 /\ Len(ExtendedOut[6]) = 1 /\ Len(out.rest) = 2
    /\ budget = 15

C28_WitnessAbort ==
    /\ ExtendedRead /\ Len(wire) = 17 /\ AnnouncedCount = 2 /\ budget = 16
    /\ out.st = "panic" /\ out.site = "addr_ext count"

\* C29: the length prefix that write emits stands for the element count: for
\* SizeVec<L, T, N> with any length type L and for String<N>, every value of
\* at most N elements is written with a prefix whose integer value is its
\* count, without truncation, whatever the capacity N.
WrittenPrefix == IF Ty(ty).k = "string" THEN wire[1] ELSE WireCount

C29_PrefixIsCount ==
    (pc = "encoded" /\ Ty(ty).k \in {"sizevec", "string"}) =>
        /\ Len(val) <= Ty(ty).n
        /\ WrittenPrefix = Len(val)
====
